---- MODULE Spec2Model ----
(***************************************************************************)
(* Liquidation bot: the Tracker (bootstrap seeding of the watchlist, the   *)
(* run loop with its per-account classification), the Watchlist Store      *)
(* (three redis sets) and the Liquidator's plan arithmetic.                *)
(*                                                                         *)
(* Units.  Health factors are 1e18 fixed point in the program; the model   *)
(* counts them in units of 1e16, so parseEther("1") is 100 and             *)
(* parseEther("1.01") is 101.  totalDebtETH is counted in units of 1e14,   *)
(* so parseEther("0.0001") is 1.                                           *)
(***************************************************************************)
EXTENDS Integers, Sequences, FiniteSets, Bags, TLC

\* The account universe (what the subgraph enumerates).
Addr == {"a1", "a2", "a3"}

\* UsersService.LIMIT_ACCOUNTS_TO_TRACK (200 in the program), scaled to the
\* three-address universe.
LIMIT_ACCOUNTS_TO_TRACK == 2

WAD == 100
UPPER_BOUND == 101
MIN_DEBT == 1

\* Values an oracle read can return.
HealthFactors == {100, 101, 102}
Debts == {1, 2}

\* getUserConfig: the account summary, or undefined when the RPC failed (the
\* catch handler logs and returns nothing).
NoUserData == [ok |-> FALSE, hf |-> 0, debt |-> 0]
UserDatas ==
  {NoUserData} \cup {[ok |-> TRUE, hf |-> h, debt |-> d] : h \in HealthFactors, d \in Debts}

VARIABLES
  phase,            \* "init", "seeding", "ready", "running", "fatal"
  path,             \* which branch _initAccounts took: "none", "seed", "restore"
  storeAll,         \* redis set AAVE#allAccounts
  storeTracked,     \* redis set AAVE#accountToTrack
  blacklist,        \* redis set AAVE#blacklist
  tracked,          \* UsersService.tracked
  accountsData,     \* _initAccounts: accountsData
  pc,               \* position of run(): "idle", "fanout", "crashed"
  previousTracked,  \* _loop: previousTracked
  accs,             \* _loop: results of the fan-out, "pending" while awaited
  sremQueue,        \* srem commands issued and not yet executed by redis
  obs,              \* last summary the loop read per address
  dispatched,       \* number of _liquidateAccount calls per address
  removalsIssued,   \* addresses for which removeTrackedAccount was called
  markets,          \* UsersService.markets (the market catalog)
  liqPc,            \* position of one _liquidateAccount call
  liqBorrower,      \* _liquidateAccount: accountAddress
  liqBalances,      \* _liquidateAccount: balances
  liqCall,          \* arguments of the call to ContractService.liquidate
  wdPc,             \* mempoolTracking: "none" before the call, "tracking" after
  ourTxs,           \* transactions we broadcast, their fate and wait() handlers
  editedTxHash,     \* mempoolTracking: editedTxHash
  myGasCost,        \* mempoolTracking: myGasCost
  increasedGasCost, \* mempoolTracking: increasedGasCost (one for all callbacks)
  listening,        \* WsProvider has the "pending" listener
  callbacks,        \* "pending" callbacks in flight (a bag: they run in any order)
  events,           \* number of "pending" events delivered
  elapsed,          \* Date.now() - startTime > 30000
  outcomes,         \* stop messages logged so far
  swap,             \* one call of ContractService.computeSwapFees
  liqTx,            \* _liquidateAccount: tx, the transaction liquidate returned
  amountRewarded,   \* _liquidateAccount: amountRewarded, -1 before it is computed
  artifact,         \* the file liquidations/<millis>.json
  attempts,         \* per borrower, the position of its _liquidateAccount call
  epoch,            \* number of price moves on the chain so far
  marketsAt,        \* epoch at which the content of UsersService.markets was read
  exitCode          \* exit code of the process, -1 while it runs

vars ==
  <<phase, path, storeAll, storeTracked, blacklist, tracked, accountsData, pc,
    previousTracked, accs, sremQueue, obs, dispatched, removalsIssued,
    markets, liqPc, liqBorrower, liqBalances, liqCall,
    wdPc, ourTxs, editedTxHash, myGasCost, increasedGasCost, listening,
    callbacks, events, elapsed, outcomes, swap,
    liqTx, amountRewarded, artifact, attempts, epoch, marketsAt, exitCode>>

botVars == <<attempts, epoch, marketsAt, exitCode>>
wdVars ==
  <<wdPc, ourTxs, editedTxHash, myGasCost, increasedGasCost, listening,
    callbacks, events, elapsed, outcomes>>
liqVars == <<markets, liqPc, liqBorrower, liqBalances, liqCall, liqTx, amountRewarded, artifact>>
trackerVars ==
  <<phase, path, storeAll, storeTracked, blacklist, tracked, accountsData, pc,
    previousTracked, accs, sremQueue, obs, dispatched, removalsIssued>>
storeVars == <<storeAll, storeTracked, blacklist>>
loopVars == <<pc, previousTracked, accs, sremQueue, obs, dispatched, removalsIssued>>

Range(s) == {s[i] : i \in DOMAIN s}
Min(S) == CHOOSE x \in S : \A y \in S : x <= y
Perms(S) ==
  {f \in [1..Cardinality(S) -> S] : \A i, j \in 1..Cardinality(S) : f[i] = f[j] => i = j}
Addresses(s) == [i \in DOMAIN s |-> s[i].address]

NoCall ==
  [made |-> FALSE, borrower |-> "", debtAssetAToken |-> "", collateralAssetAToken |-> "",
   debtAmount |-> 0]
Unread == [seen |-> FALSE, ok |-> FALSE, hf |-> 0]
Pending == [address |-> "", ok |-> FALSE, hf |-> 0, toRemove |-> FALSE, done |-> FALSE]

(***************************************************************************)
(* Array.prototype.sort with the comparator                                *)
(*   (acc1, acc2) => acc1.hf.gt(acc2.hf) ? 1 : -1                          *)
(* The comparator never answers 0: an element is placed before the first   *)
(* element it is not greater than, so equal elements come out in an order  *)
(* that depends on the order they came in.                                 *)
(***************************************************************************)
HfCmp(acc1, acc2) == IF acc1.hf > acc2.hf THEN 1 ELSE -1

InsertHf(s, x) ==
  LET before == {i \in 1..Len(s) : HfCmp(x, s[i]) < 0}
      p == IF before = {} THEN Len(s) + 1 ELSE Min(before)
  IN SubSeq(s, 1, p - 1) \o <<x>> \o SubSeq(s, p, Len(s))

RECURSIVE SortHf(_)
SortHf(s) ==
  IF s = <<>> THEN <<>> ELSE InsertHf(SortHf(SubSeq(s, 1, Len(s) - 1)), s[Len(s)])

\* slice(0, limit)
Slice(s, limit) == SubSeq(s, 1, IF Len(s) < limit THEN Len(s) ELSE limit)

(***************************************************************************)
(* Bootstrap: UsersService._initAccounts                                   *)
(***************************************************************************)
HasHealthFactor(acc) == acc.ok

\* Eligibility with a non-strict health-factor test.
EligibleGte(acc) == acc.debt > MIN_DEBT /\ acc.hf >= WAD

Eligible(acc) == acc.debt > MIN_DEBT /\ acc.hf > WAD

\* accountsData.filter(hasHF).sort(byHF).filter(eligible)
Sorted(data) == SelectSeq(SortHf(SelectSeq(data, HasHealthFactor)), Eligible)

\* StorageService.isBlackListed
isBlackListed(acc) == acc \in blacklist

\* StorageService.addAccountsToTrack: what acc.filter(async ...) keeps.  The
\* predicate returns a promise, which is truthy for every element.
BlacklistFilterKeeps(acc) == TRUE

addAccountsToTrack(acc, limit) ==
  Slice(SelectSeq(acc, BlacklistFilterKeeps), limit)

\* GraphService.getAllAddresses
GraphUsers == Addr

\* The watchdog before mempoolTracking is called.
WatchdogIdle ==
  /\ wdPc = "none"
  /\ ourTxs = <<>>
  /\ editedTxHash = <<>>
  /\ myGasCost = 0
  /\ increasedGasCost = 0
  /\ listening = FALSE
  /\ callbacks = EmptyBag
  /\ events = 0
  /\ elapsed = FALSE
  /\ outcomes = {}

\* No transaction returned and no artifact written yet.
NoArtifact == [written |-> FALSE, collateral |-> "", debt |-> ""]
LiquidatorIdle ==
  /\ liqTx = [gasPrice |-> 0]
  /\ amountRewarded = -1
  /\ artifact = NoArtifact

\* No _liquidateAccount call yet, the catalog is the one read by init(), the
\* process runs.
NoAttempt == [pc |-> "none", dispatchedAt |-> -1, usedAt |-> -1]
BotIdle ==
  /\ attempts = [a \in Addr |-> NoAttempt]
  /\ epoch = 0
  /\ marketsAt = -1
  /\ exitCode = -1

\* No call of computeSwapFees.
NoSwap == [called |-> FALSE, debtAssetAToken |-> <<>>, collateralAssetAToken |-> <<>>, fees |-> ""]

Init ==
  /\ phase = "init"
  /\ path = "none"
  /\ storeAll \in SUBSET Addr
  /\ storeTracked \in {T \in SUBSET Addr : Cardinality(T) <= LIMIT_ACCOUNTS_TO_TRACK}
  /\ blacklist \in SUBSET (Addr \ storeTracked)
  /\ tracked = <<>>
  /\ accountsData = <<>>
  /\ pc = "idle"
  /\ previousTracked = <<>>
  /\ accs = <<>>
  /\ sremQueue = <<>>
  /\ obs = [a \in Addr |-> Unread]
  /\ dispatched = [a \in Addr |-> 0]
  /\ removalsIssued = {}
  /\ markets = <<>>
  /\ liqPc = "none"
  /\ liqBorrower = ""
  /\ liqBalances = <<>>
  /\ liqCall = NoCall
  /\ WatchdogIdle
  /\ LiquidatorIdle
  /\ BotIdle
  /\ swap = NoSwap

\* _initAccounts, restore branch: the stored tracked set is large enough.
InitAccountsRestore ==
  /\ phase = "init"
  /\ ~(Cardinality(storeTracked) < LIMIT_ACCOUNTS_TO_TRACK)
  /\ \E accountsToTrack \in Perms(storeTracked) :
       tracked' = accountsToTrack
  /\ phase' = "ready"
  /\ path' = "restore"
  /\ UNCHANGED <<storeVars, accountsData, loopVars, liqVars, wdVars, swap, botVars>>

\* _initAccounts, seeding branch: candidates from AllKnown or, when that is
\* empty, from the subgraph (which saves them to AllKnown).
InitAccountsSeed ==
  /\ phase = "init"
  /\ Cardinality(storeTracked) < LIMIT_ACCOUNTS_TO_TRACK
  /\ storeAll' = IF storeAll = {} THEN GraphUsers ELSE storeAll
  /\ phase' = "seeding"
  /\ path' = "seed"
  /\ UNCHANGED <<storeTracked, blacklist, tracked, accountsData, loopVars, liqVars, wdVars, swap, botVars>>

\* One getUserConfig answer of the bootstrap fan-out.  The candidate array is
\* in the order redis (or the subgraph) enumerates it.
FetchUserConfig(address, config) ==
  /\ phase = "seeding"
  /\ address \in storeAll \ Range(Addresses(accountsData))
  /\ accountsData' =
       Append(accountsData,
              [address |-> address, ok |-> config.ok, hf |-> config.hf, debt |-> config.debt])
  /\ UNCHANGED <<phase, path, storeVars, tracked, loopVars, liqVars, wdVars, swap, botVars>>

\* The rest of _initAccounts without the throw on an empty selection.
SelectAccountsNoThrow ==
  /\ phase = "seeding"
  /\ storeAll = Range(Addresses(accountsData))
  /\ LET sorted == Sorted(accountsData)
         added == addAccountsToTrack(Addresses(sorted), LIMIT_ACCOUNTS_TO_TRACK)
     IN /\ storeTracked' = storeTracked \cup Range(added)
        /\ tracked' = added
        /\ phase' = "ready"
  /\ UNCHANGED <<path, storeAll, blacklist, accountsData, loopVars, liqVars, wdVars, swap, botVars>>

\* The rest of _initAccounts once every candidate has been read.
SelectAccounts ==
  /\ phase = "seeding"
  /\ storeAll = Range(Addresses(accountsData))
  /\ LET sorted == Sorted(accountsData)
         added == addAccountsToTrack(Addresses(sorted), LIMIT_ACCOUNTS_TO_TRACK)
     IN IF Len(sorted) = 0
        THEN /\ phase' = "fatal"
             /\ UNCHANGED <<storeTracked, tracked>>
        ELSE /\ storeTracked' = storeTracked \cup Range(added)
             /\ tracked' = added
             /\ phase' = "ready"
  /\ UNCHANGED <<path, storeAll, blacklist, accountsData, loopVars, liqVars, wdVars, swap, botVars>>

\* main.ts: init() has resolved, run() is called.
Run ==
  /\ phase = "ready"
  /\ phase' = "running"
  /\ accountsData' = <<>>
  /\ UNCHANGED <<path, storeVars, tracked, loopVars, liqVars, wdVars, swap, botVars>>

(***************************************************************************)
(* Run loop: UsersService._loop                                            *)
(***************************************************************************)
\* The chain without "toRemove = true" after the dispatch.
ClassifyKeepsLiquidated(userData) ==
  IF ~userData.ok
  THEN [toRemove |-> TRUE, liquidate |-> FALSE]
  ELSE IF userData.hf <= WAD
  THEN [toRemove |-> FALSE, liquidate |-> TRUE]
  ELSE IF userData.hf > UPPER_BOUND
  THEN [toRemove |-> TRUE, liquidate |-> FALSE]
  ELSE [toRemove |-> FALSE, liquidate |-> FALSE]

\* The chain with gte in place of gt on the upper bound.
ClassifyGte(userData) ==
  IF ~userData.ok
  THEN [toRemove |-> TRUE, liquidate |-> FALSE]
  ELSE IF userData.hf <= WAD
  THEN [toRemove |-> TRUE, liquidate |-> TRUE]
  ELSE IF userData.hf >= UPPER_BOUND
  THEN [toRemove |-> TRUE, liquidate |-> FALSE]
  ELSE [toRemove |-> FALSE, liquidate |-> FALSE]

\* The chain without the untrack branch.
ClassifyNoUntrack(userData) ==
  IF ~userData.ok
  THEN [toRemove |-> TRUE, liquidate |-> FALSE]
  ELSE IF userData.hf <= WAD
  THEN [toRemove |-> TRUE, liquidate |-> TRUE]
  ELSE [toRemove |-> FALSE, liquidate |-> FALSE]

\* The chain without the missing-summary branch.
ClassifyKeepsFailed(userData) ==
  IF userData.ok /\ userData.hf <= WAD
  THEN [toRemove |-> TRUE, liquidate |-> TRUE]
  ELSE IF userData.ok /\ userData.hf > UPPER_BOUND
  THEN [toRemove |-> TRUE, liquidate |-> FALSE]
  ELSE [toRemove |-> FALSE, liquidate |-> FALSE]

\* The if / else-if chain of the fan-out callback.
Classify(userData) ==
  IF ~userData.ok
  THEN [toRemove |-> TRUE, liquidate |-> FALSE]
  ELSE IF userData.hf <= WAD
  THEN [toRemove |-> TRUE, liquidate |-> TRUE]
  ELSE IF userData.hf > UPPER_BOUND
  THEN [toRemove |-> TRUE, liquidate |-> FALSE]
  ELSE [toRemove |-> FALSE, liquidate |-> FALSE]

\* The fan-out over the stored set instead of the in-memory array.
LoopInputFromStore == CHOOSE p \in Perms(storeTracked) : TRUE

\* The array the fan-out maps over.
LoopInput == tracked

\* _loop up to the await: remember the array and send one getUserConfig per
\* tracked address.
LoopStart ==
  /\ phase = "running"
  /\ pc = "idle"
  /\ pc' = "fanout"
  /\ previousTracked' = tracked
  /\ accs' = [i \in 1..Len(LoopInput) |-> [Pending EXCEPT !.address = LoopInput[i]]]
  /\ UNCHANGED <<phase, path, storeVars, tracked, accountsData, sremQueue, obs,
                 dispatched, removalsIssued, liqVars, wdVars, swap, botVars>>

\* One callback of the fan-out resumes with the oracle's answer.  Reading
\* userData.healthFactor of a kept entry throws when userData is undefined.
LoopCallback(i, userData) ==
  /\ phase = "running"
  /\ pc = "fanout"
  /\ i \in DOMAIN accs
  /\ ~accs[i].done
  /\ LET accountAddress == accs[i].address
         c == Classify(userData)
     IN /\ dispatched' =
             IF c.liquidate
             THEN [dispatched EXCEPT ![accountAddress] = @ + 1]
             ELSE dispatched
        /\ sremQueue' = IF c.toRemove THEN Append(sremQueue, accountAddress) ELSE sremQueue
        /\ removalsIssued' =
             IF c.toRemove THEN removalsIssued \cup {accountAddress} ELSE removalsIssued
        /\ obs' = [obs EXCEPT ![accountAddress] =
                     [seen |-> TRUE, ok |-> userData.ok, hf |-> userData.hf]]
        /\ accs' = [accs EXCEPT ![i] =
                     [address |-> accountAddress, ok |-> userData.ok, hf |-> userData.hf,
                      toRemove |-> c.toRemove, done |-> TRUE]]
        /\ pc' = IF ~c.toRemove /\ ~userData.ok THEN "crashed" ELSE "fanout"
        /\ attempts' =
             IF c.liquidate
             THEN [attempts EXCEPT ![accountAddress] =
                     [pc |-> "_getMarkets", dispatchedAt |-> epoch, usedAt |-> -1]]
             ELSE attempts
  /\ UNCHANGED <<phase, path, storeVars, tracked, accountsData, previousTracked, liqVars, wdVars,
                 swap, epoch, marketsAt, exitCode>>

NotToRemove(acc) == ~acc.toRemove

\* The results are sorted without the filter on toRemove.
NextTrackedKeepsRemoved(results) == Addresses(SortHf(results))

\* .then(accs => accs.filter(!toRemove).sort(byHF).map(address))
NextTracked(results) == Addresses(SortHf(SelectSeq(results, NotToRemove)))

\* The tracked array is replaced as soon as one callback has returned.
LoopEndEarly ==
  /\ phase = "running"
  /\ pc = "fanout"
  /\ \E i \in DOMAIN accs : accs[i].done
  /\ tracked' = NextTracked(accs)
  /\ accs' = <<>>
  /\ pc' = "idle"
  /\ UNCHANGED <<phase, path, storeVars, accountsData, previousTracked, sremQueue, obs,
                 dispatched, removalsIssued, liqVars, wdVars, swap, botVars>>

\* Promise.all has resolved: the tracked array is replaced.
LoopEnd ==
  /\ phase = "running"
  /\ pc = "fanout"
  /\ \A i \in DOMAIN accs : accs[i].done
  /\ tracked' = NextTracked(accs)
  /\ accs' = <<>>
  /\ pc' = "idle"
  /\ UNCHANGED <<phase, path, storeVars, accountsData, previousTracked, sremQueue, obs,
                 dispatched, removalsIssued, liqVars, wdVars, swap, botVars>>

\* StorageService.removeTrackedAccount is not awaited: redis executes the srem
\* commands later, in the order they were sent.
RedisSrem ==
  /\ sremQueue # <<>>
  /\ storeTracked' = storeTracked \ {Head(sremQueue)}
  /\ sremQueue' = Tail(sremQueue)
  /\ UNCHANGED <<phase, path, storeAll, blacklist, tracked, accountsData, pc,
                 previousTracked, accs, obs, dispatched, removalsIssued, liqVars, wdVars, swap, botVars>>

LoopUserDatas == {NoUserData} \cup {[ok |-> TRUE, hf |-> h, debt |-> 2] : h \in HealthFactors}

Next ==
  \/ InitAccountsRestore
  \/ InitAccountsSeed
  \/ \E address \in Addr, config \in UserDatas : FetchUserConfig(address, config)
  \/ SelectAccounts
  \/ Run
  \/ LoopStart
  \/ \E i \in 1..LIMIT_ACCOUNTS_TO_TRACK, userData \in LoopUserDatas : LoopCallback(i, userData)
  \/ LoopEnd
  \/ RedisSrem

Spec == Init /\ [][Next]_vars

(***************************************************************************)
(* Liquidator: UsersService._liquidateAccount                              *)
(*                                                                         *)
(* Token amounts, prices and decimals are small integers; the arithmetic   *)
(* is the program's (BigNumber mul and truncating div).                    *)
(***************************************************************************)
MarketAddr == {"m1", "m2"}
MaxDebt == 3
MaxBalance == 2

\* ProtocolDataProvider.getReserveTokensAddresses: one aToken per reserve.
ATokenOf(address) == IF address = "m1" THEN "aM1" ELSE "aM2"

MarketConfigs(address) ==
  {[address |-> address, aTokenAddress |-> ATokenOf(address), decimals |-> d,
    ethPrice |-> pr, liquidationBonus |-> lb] :
     d \in {1, 2}, pr \in {10, 20}, lb \in {10500, 11000}}

\* ContractService._getMarkets: the reserves in the order the data provider
\* lists them.
Catalogs ==
  {c \in [1..2 -> UNION {MarketConfigs(m) : m \in MarketAddr}] :
     c[1].address # c[2].address}

\* ContractService.getBalancesInOf: the reserve data, or undefined when the
\* RPC failed.
NoUserBalance == [ok |-> FALSE, currentATokenBalance |-> 0, currentVariableDebt |-> 0]
UserBalances ==
  {NoUserBalance} \cup
  {[ok |-> TRUE, currentATokenBalance |-> b, currentVariableDebt |-> v] :
     b \in 0..MaxBalance, v \in 0..MaxDebt}

RECURSIVE Pow10(_)
Pow10(n) == IF n = 0 THEN 1 ELSE 10 * Pow10(n - 1)

\* Array.prototype.sort with (b1, b2) => b1.amount.lt(b2.amount) ? 1 : -1
AmountCmp(b1, b2) == IF b1.amount < b2.amount THEN 1 ELSE -1

InsertAmount(s, x) ==
  LET before == {i \in 1..Len(s) : AmountCmp(x, s[i]) < 0}
      p == IF before = {} THEN Len(s) + 1 ELSE Min(before)
  IN SubSeq(s, 1, p - 1) \o <<x>> \o SubSeq(s, p, Len(s))

RECURSIVE SortAmount(_)
SortAmount(s) ==
  IF s = <<>> THEN <<>>
  ELSE InsertAmount(SortAmount(SubSeq(s, 1, Len(s) - 1)), s[Len(s)])

\* balances.find(b => b.market.address === selector)
FindMarket(balances, selector) ==
  balances[Min({i \in DOMAIN balances : balances[i].market.address = selector})]

_selectDebtToken(balances) ==
  LET scored == [i \in DOMAIN balances |->
                   [selector |-> balances[i].market.address,
                    amount |-> (balances[i].currentVariableDebt * balances[i].market.ethPrice)
                                 \div Pow10(balances[i].market.decimals)]]
      selectedDebtMarket == SortAmount(scored)[1]
  IN FindMarket(balances, selectedDebtMarket.selector)

_selectCollateralToken(balances) ==
  LET scored == [i \in DOMAIN balances |->
                   [selector |-> balances[i].market.address,
                    amount |-> ((balances[i].currentATokenBalance * balances[i].market.ethPrice)
                                  \div Pow10(balances[i].market.decimals))
                               * balances[i].market.liquidationBonus]]
      selectedCollateralMarket == SortAmount(scored)[1]
  IN FindMarket(balances, selectedCollateralMarket.selector)

\* Half the debt, rounded up.
DebtAmountRoundedUp(repayBalance) == (repayBalance.currentVariableDebt + 1) \div 2

\* repayBalance.currentVariableDebt.div(2)
DebtAmount(repayBalance) == repayBalance.currentVariableDebt \div 2

InitLiquidator ==
  /\ phase = "running"
  /\ path = "restore"
  /\ storeAll = {}
  /\ storeTracked = {}
  /\ blacklist = {}
  /\ tracked = <<>>
  /\ accountsData = <<>>
  /\ pc = "idle"
  /\ previousTracked = <<>>
  /\ accs = <<>>
  /\ sremQueue = <<>>
  /\ obs = [a \in Addr |-> Unread]
  /\ dispatched = [a \in Addr |-> 0]
  /\ removalsIssued = {}
  /\ markets \in Catalogs
  /\ liqPc = "none"
  /\ liqBorrower = ""
  /\ liqBalances = <<>>
  /\ liqCall = NoCall
  /\ WatchdogIdle
  /\ LiquidatorIdle
  /\ BotIdle
  /\ swap = NoSwap

\* _liquidateAccount is called for a borrower.
LiquidateAccount(accountAddress) ==
  /\ liqPc = "none"
  /\ liqPc' = "_initMarkets"
  /\ liqBorrower' = accountAddress
  /\ UNCHANGED <<trackerVars, wdVars, swap, botVars, liqTx, amountRewarded, artifact, markets, liqBalances, liqCall>>

\* await this._initMarkets(): the catalog is read again.
InitMarkets(catalog) ==
  /\ liqPc = "_initMarkets"
  /\ markets' = catalog
  /\ liqPc' = "_getUserBalances"
  /\ UNCHANGED <<trackerVars, wdVars, swap, botVars, liqTx, amountRewarded, artifact, liqBorrower, liqBalances, liqCall>>

\* await this._getUserBalances(accountAddress): one read per market, each
\* spread over its market.
GetUserBalances(reads) ==
  /\ liqPc = "_getUserBalances"
  /\ liqBalances' =
       [i \in DOMAIN markets |->
          [market |-> markets[i], ok |-> reads[i].ok,
           currentATokenBalance |-> reads[i].currentATokenBalance,
           currentVariableDebt |-> reads[i].currentVariableDebt]]
  /\ liqPc' = "liquidate"
  /\ UNCHANGED <<trackerVars, wdVars, swap, botVars, liqTx, amountRewarded, artifact, markets, liqBorrower, liqCall>>

\* Selection, sizing and the call to ContractService.liquidate.  A balance
\* that could not be read has no currentVariableDebt: the selection throws.
Liquidate ==
  /\ liqPc = "liquidate"
  /\ IF \E i \in DOMAIN liqBalances : ~liqBalances[i].ok
     THEN /\ liqPc' = "threw"
          /\ UNCHANGED liqCall
     ELSE LET repayBalance == _selectDebtToken(liqBalances)
              collateralBalance == _selectCollateralToken(liqBalances)
              debtAmount == DebtAmount(repayBalance)
          IN /\ liqCall' =
                  [made |-> TRUE, borrower |-> liqBorrower,
                   debtAssetAToken |-> repayBalance.market.aTokenAddress,
                   collateralAssetAToken |-> collateralBalance.market.aTokenAddress,
                   debtAmount |-> debtAmount]
             /\ liqPc' = "submitted"
  /\ UNCHANGED <<trackerVars, wdVars, swap, botVars, liqTx, amountRewarded, artifact, markets, liqBorrower, liqBalances>>

\* ---------------------------------------------------------------------------
\* The mempool watchdog: mempoolTracking(myTx, borrowerAddress, provider).
\* Gas prices are in gwei.  Strings the code inspects character by character
\* (addresses, calldata) are sequences of one-character strings.
\* ---------------------------------------------------------------------------

LowerChar(c) ==
  CASE c = "A" -> "a" [] c = "B" -> "b" [] c = "C" -> "c"
    [] c = "D" -> "d" [] c = "E" -> "e" [] c = "F" -> "f"
    [] OTHER -> c

\* String.prototype.toLowerCase
toLowerCase(s) == [i \in DOMAIN s |-> LowerChar(s[i])]

\* String.prototype.includes
includes(s, t) == \E i \in 0..(Len(s) - Len(t)) : SubSeq(s, i + 1, i + Len(t)) = t

\* String.prototype.slice(start, s.length), start counted from 0
slice(s, start) == SubSeq(s, start + 1, Len(s))

Submitter == <<"0", "x", "A", "b">>
Competitor == <<"0", "x", "C", "1">>
Wrapper == <<"0", "x", "F", "f">>
borrowerAddress == <<"0", "x", "b", "0">>
myPublicAddr == <<"0", "x", "0", "0">>

\* Calldata of a liquidation of the borrower, and of some other call.
LiquidationData == <<"0", "x", "9", "e">> \o slice(borrowerAddress, 2)
OtherData == <<"0", "x", "9", "e", "d", "d">>

MaxEvents == 3
FirstGasPrices == {30}
CompetitorGasPrices == {33, 50}

\* The liquidation transaction returned by ContractService.liquidate.
MyTx(gasPrice) ==
  [from |-> Submitter, to |-> Wrapper, nonce |-> 7, gasLimit |-> 28,
   gasPrice |-> gasPrice, data |-> LiquidationData, value |-> 0,
   chainId |-> 137, type |-> 0, accessList |-> <<>>]

\* Transactions of other senders the socket may announce: liquidations of the
\* borrower at each price, and one unrelated call at the highest price.
CompetitorTx(gasPrice, data) ==
  [from |-> Competitor, to |-> Wrapper, nonce |-> 1, gasLimit |-> 28,
   gasPrice |-> gasPrice, data |-> data, value |-> 0, chainId |-> 137, type |-> 0,
   accessList |-> <<>>]
CompetitorTxs ==
  {CompetitorTx(g, LiquidationData) : g \in CompetitorGasPrices}
    \cup {CompetitorTx(50, OtherData)}

NoTx == [gasPrice |-> 0]

\* The hash of a signed transaction: equal exactly when every signed field is.
Hash(tx) ==
  <<tx.from, tx.to, tx.nonce, tx.gasLimit, tx.gasPrice, tx.data, tx.value,
    tx.chainId, tx.type, tx.accessList>>

Hashes(txs) == {Hash(txs[i].tx) : i \in DOMAIN txs}

\* transaction.gasPrice.mul(11).div(10)
IncreasedGasCost(gasPrice) == (gasPrice * 11) \div 10

\* A replacement that takes the next nonce.
NewTxFreshNonce(myTx, gasPrice) ==
  [to |-> myTx.to, from |-> myTx.from, nonce |-> myTx.nonce + 1,
   gasLimit |-> myTx.gasLimit, gasPrice |-> gasPrice, data |-> myTx.data,
   value |-> myTx.value, chainId |-> myTx.chainId, type |-> myTx.type,
   accessList |-> myTx.accessList]

\* newTx: the fields destructured from myTx, with the new gas price.
NewTx(myTx, gasPrice) ==
  [to |-> myTx.to, from |-> myTx.from, nonce |-> myTx.nonce,
   gasLimit |-> myTx.gasLimit, gasPrice |-> gasPrice, data |-> myTx.data,
   value |-> myTx.value, chainId |-> myTx.chainId, type |-> myTx.type,
   accessList |-> myTx.accessList]

\* The test without the look into the calldata.
IsCompetitorAnyData(transaction) ==
  toLowerCase(transaction.from) # toLowerCase(myPublicAddr)

\* The test the "pending" callback applies to a fetched transaction.
IsCompetitor(transaction) ==
  /\ toLowerCase(transaction.from) # toLowerCase(myPublicAddr)
  /\ includes(transaction.data, slice(borrowerAddress, 2))

\* The filter keeps every hash.
WithoutHashKeepsAll(hashes, hash) == hashes

\* editedTxHash.filter((h) => h !== hash)
WithoutHash(hashes, hash) == SelectSeq(hashes, LAMBDA h : h # hash)

\* The body of mempoolTracking up to the registration of the listener.
StartTracking(myTx) ==
  /\ wdPc = "none"
  /\ wdPc' = "tracking"
  /\ ourTxs' = <<[tx |-> myTx, status |-> "pending", settled |-> FALSE]>>
  /\ editedTxHash' = <<Hash(myTx)>>
  /\ myGasCost' = myTx.gasPrice
  /\ listening' = TRUE
  /\ UNCHANGED <<increasedGasCost, callbacks, events, elapsed, outcomes>>

\* The watchdog is started for the submitted transaction.
MempoolTracking(myTx) ==
  /\ StartTracking(myTx)
  /\ UNCHANGED <<trackerVars, liqVars, swap, botVars>>

\* The clock passes startTime + 30000.
Deadline ==
  /\ wdPc = "tracking"
  /\ ~elapsed
  /\ elapsed' = TRUE
  /\ UNCHANGED <<wdPc, ourTxs, editedTxHash, myGasCost, increasedGasCost, listening,
                 callbacks, events, outcomes>>
  /\ UNCHANGED <<trackerVars, liqVars, swap, botVars>>

\* The socket announces a pending transaction: the callback asks for the
\* transaction and then tests the timeout.
PendingEvent(transaction) ==
  /\ listening
  /\ events < MaxEvents
  /\ events' = events + 1
  /\ callbacks' =
       callbacks (+) SetToBag({[transaction |-> transaction, at |-> "getTransaction", newTx |-> NoTx]})
  /\ IF elapsed
     THEN /\ listening' = FALSE
          /\ outcomes' = outcomes \cup {"timeout"}
     ELSE UNCHANGED <<listening, outcomes>>
  /\ UNCHANGED <<wdPc, ourTxs, editedTxHash, myGasCost, increasedGasCost, elapsed>>
  /\ UNCHANGED <<trackerVars, liqVars, swap, botVars>>

\* getTransaction resolves: null, not a competitor, not a higher bid, or the
\* bump is computed and the callback waits for the signature.
GetTransactionThen(cb, found) ==
  /\ BagIn(cb, callbacks)
  /\ cb.at = "getTransaction"
  /\ LET transaction == cb.transaction
     IN IF found /\ IsCompetitor(transaction) /\ transaction.gasPrice > myGasCost
        THEN /\ increasedGasCost' = IncreasedGasCost(transaction.gasPrice)
             /\ callbacks' =
                  (callbacks (-) SetToBag({cb})) (+)
                    SetToBag({[transaction |-> transaction, at |-> "signTransaction",
                               newTx |-> NewTx(ourTxs[1].tx,
                                               IncreasedGasCost(transaction.gasPrice))]})
        ELSE /\ callbacks' = callbacks (-) SetToBag({cb})
             /\ UNCHANGED increasedGasCost
  /\ UNCHANGED <<wdPc, ourTxs, editedTxHash, myGasCost, listening, events, elapsed, outcomes>>
  /\ UNCHANGED <<trackerVars, liqVars, swap, botVars>>

\* wallet.signTransaction resolves.
SignTransaction(cb) ==
  /\ BagIn(cb, callbacks)
  /\ cb.at = "signTransaction"
  /\ callbacks' =
       (callbacks (-) SetToBag({cb})) (+) SetToBag({[cb EXCEPT !.at = "sendTransaction"]})
  /\ UNCHANGED <<wdPc, ourTxs, editedTxHash, myGasCost, increasedGasCost, listening,
                 events, elapsed, outcomes>>
  /\ UNCHANGED <<trackerVars, liqVars, swap, botVars>>

\* provider.sendTransaction settles.  The node refuses a transaction it
\* already knows and may refuse any other; the callback then throws.
\* Otherwise the wait() handlers are attached, myGasCost takes the value of
\* the shared increasedGasCost and the hash is pushed.
SendTransaction(cb, accepted) ==
  /\ BagIn(cb, callbacks)
  /\ cb.at = "sendTransaction"
  /\ callbacks' = callbacks (-) SetToBag({cb})
  /\ IF accepted /\ Hash(cb.newTx) \notin Hashes(ourTxs)
     THEN /\ ourTxs' = Append(ourTxs, [tx |-> cb.newTx, status |-> "pending", settled |-> FALSE])
          /\ myGasCost' = increasedGasCost
          /\ editedTxHash' = Append(editedTxHash, Hash(cb.newTx))
     ELSE UNCHANGED <<ourTxs, myGasCost, editedTxHash>>
  /\ UNCHANGED <<wdPc, increasedGasCost, listening, events, elapsed, outcomes>>
  /\ UNCHANGED <<trackerVars, liqVars, swap, botVars>>

\* Transactions of the same sender and nonce that were mined.
Mined(i) ==
  {j \in DOMAIN ourTxs :
     /\ ourTxs[j].tx.from = ourTxs[i].tx.from
     /\ ourTxs[j].tx.nonce = ourTxs[i].tx.nonce
     /\ ourTxs[j].status \in {"confirmed", "reverted"}}

\* The chain mines one of our transactions, with success or reverted: at
\* most one transaction per sender and nonce.
Mine(i, success) ==
  /\ i \in DOMAIN ourTxs
  /\ ourTxs[i].status = "pending"
  /\ Mined(i) = {}
  /\ ourTxs' = [ourTxs EXCEPT ![i].status = IF success THEN "confirmed" ELSE "reverted"]
  /\ UNCHANGED <<wdPc, editedTxHash, myGasCost, increasedGasCost, listening, callbacks,
                 events, elapsed, outcomes>>
  /\ UNCHANGED <<trackerVars, liqVars, swap, botVars>>

\* A pending transaction is replaced: another one took its nonce.
Replaced(i) ==
  /\ i \in DOMAIN ourTxs
  /\ ourTxs[i].status = "pending"
  /\ Mined(i) # {}
  /\ ourTxs' = [ourTxs EXCEPT ![i].status = "replaced"]
  /\ UNCHANGED <<wdPc, editedTxHash, myGasCost, increasedGasCost, listening, callbacks,
                 events, elapsed, outcomes>>
  /\ UNCHANGED <<trackerVars, liqVars, swap, botVars>>

\* The then-handler leaves the listener in place.
WaitThenKeepsListening(i) ==
  /\ i \in DOMAIN ourTxs
  /\ ourTxs[i].status = "confirmed"
  /\ ~ourTxs[i].settled
  /\ ourTxs' = [ourTxs EXCEPT ![i].settled = TRUE]
  /\ outcomes' = outcomes \cup {"success"}
  /\ UNCHANGED <<wdPc, editedTxHash, myGasCost, increasedGasCost, listening, callbacks,
                 events, elapsed>>
  /\ UNCHANGED <<trackerVars, liqVars, swap, botVars>>

\* wait() resolved: the then-handler removes the listener.
WaitThen(i) ==
  /\ i \in DOMAIN ourTxs
  /\ ourTxs[i].status = "confirmed"
  /\ ~ourTxs[i].settled
  /\ ourTxs' = [ourTxs EXCEPT ![i].settled = TRUE]
  /\ listening' = FALSE
  /\ outcomes' = outcomes \cup {"success"}
  /\ UNCHANGED <<wdPc, editedTxHash, myGasCost, increasedGasCost, callbacks, events, elapsed>>
  /\ UNCHANGED <<trackerVars, liqVars, swap, botVars>>

\* wait() rejected: the catch-handler drops the hash and stops when none is left.
WaitCatch(i) ==
  /\ i \in DOMAIN ourTxs
  /\ ourTxs[i].status \in {"reverted", "replaced"}
  /\ ~ourTxs[i].settled
  /\ ourTxs' = [ourTxs EXCEPT ![i].settled = TRUE]
  /\ editedTxHash' = WithoutHash(editedTxHash, Hash(ourTxs[i].tx))
  /\ IF Len(WithoutHash(editedTxHash, Hash(ourTxs[i].tx))) = 0
     THEN /\ listening' = FALSE
          /\ outcomes' = outcomes \cup {"error"}
     ELSE UNCHANGED <<listening, outcomes>>
  /\ UNCHANGED <<wdPc, myGasCost, increasedGasCost, callbacks, events, elapsed>>
  /\ UNCHANGED <<trackerVars, liqVars, swap, botVars>>

\* The tracker and the liquidator at rest, before the watchdog is started.
InitWatchdog ==
  /\ phase = "running"
  /\ path = "restore"
  /\ storeAll = {}
  /\ storeTracked = {}
  /\ blacklist = {}
  /\ tracked = <<>>
  /\ accountsData = <<>>
  /\ pc = "idle"
  /\ previousTracked = <<>>
  /\ accs = <<>>
  /\ sremQueue = <<>>
  /\ obs = [a \in Addr |-> Unread]
  /\ dispatched = [a \in Addr |-> 0]
  /\ removalsIssued = {}
  /\ markets = <<>>
  /\ liqPc = "submitted"
  /\ liqBorrower = "a1"
  /\ liqBalances = <<>>
  /\ liqCall = NoCall
  /\ WatchdogIdle
  /\ LiquidatorIdle
  /\ BotIdle
  /\ swap = NoSwap

Announced == CompetitorTxs \cup {ourTxs[i].tx : i \in DOMAIN ourTxs}

NextWatchdog ==
  \/ \E gasPrice \in FirstGasPrices : MempoolTracking(MyTx(gasPrice))
  \/ Deadline
  \/ \E transaction \in Announced : PendingEvent(transaction)
  \/ \E cb \in BagToSet(callbacks), found \in BOOLEAN : GetTransactionThen(cb, found)
  \/ \E cb \in BagToSet(callbacks) : SignTransaction(cb)
  \/ \E cb \in BagToSet(callbacks), accepted \in BOOLEAN : SendTransaction(cb, accepted)
  \/ \E i \in 1..(MaxEvents + 1), success \in BOOLEAN : Mine(i, success)
  \/ \E i \in 1..(MaxEvents + 1) : Replaced(i)
  \/ \E i \in 1..(MaxEvents + 1) : WaitThen(i)
  \/ \E i \in 1..(MaxEvents + 1) : WaitCatch(i)

SpecWatchdog == InitWatchdog /\ [][NextWatchdog]_vars

(***************************************************************************)
(* _liquidateAccount after the call of ContractService.liquidate            *)
(***************************************************************************)

\* amountRewarded: market.decimals itself is the factor and the divisor.
AmountRewarded(debtAmount, repayBalance, collateralBalance) ==
  (((((debtAmount * repayBalance.market.ethPrice) * collateralBalance.market.decimals)
       \div repayBalance.market.decimals)
      \div collateralBalance.market.ethPrice)
     * collateralBalance.market.liquidationBonus) \div 10000

\* await this.contractService.liquidate(...) settles.  Nothing catches a
\* rejection: it rejects the promise of _liquidateAccount.  Otherwise tx is
\* bound, amountRewarded is computed and writeFile is called.
LiquidateThen(sent, gasPrice) ==
  /\ liqPc = "submitted"
  /\ IF sent
     THEN LET repayBalance == _selectDebtToken(liqBalances)
              collateralBalance == _selectCollateralToken(liqBalances)
          IN /\ liqTx' = MyTx(gasPrice)
             /\ amountRewarded' =
                  AmountRewarded(liqCall.debtAmount, repayBalance, collateralBalance)
             /\ liqPc' = "writeFile"
     ELSE /\ liqPc' = "rejected"
          /\ UNCHANGED <<liqTx, amountRewarded>>
  /\ UNCHANGED <<trackerVars, wdVars, swap, botVars, artifact, markets, liqBorrower,
                 liqBalances, liqCall>>

\* await fs.promises.writeFile(`liquidations/${Date.now()}.json`, ...) settles;
\* when it resolved, mempoolTracking(tx, ...) is called and the attempt is over.
WriteFileThen(written) ==
  /\ liqPc = "writeFile"
  /\ IF written
     THEN /\ artifact' =
               [written |-> TRUE,
                collateral |-> _selectCollateralToken(liqBalances).market.address,
                debt |-> _selectDebtToken(liqBalances).market.address]
          /\ StartTracking(liqTx)
          /\ liqPc' = "tracking"
     ELSE /\ liqPc' = "rejected"
          /\ UNCHANGED <<artifact, wdVars>>
  /\ UNCHANGED <<trackerVars, swap, botVars, liqTx, amountRewarded, markets, liqBorrower,
                 liqBalances, liqCall>>

\* this._liquidateAccount(accountAddress) is called without await and without
\* catch: its rejection is an unhandled rejection.  The runtime warns and goes
\* on, or ends the process with exit code 1, depending on its version.
UnhandledRejection(terminates) ==
  /\ liqPc \in {"threw", "rejected"}
  /\ phase # "exited"
  /\ liqPc' = "unhandled"
  /\ IF terminates
     THEN /\ phase' = "exited"
          /\ exitCode' = 1
     ELSE UNCHANGED <<phase, exitCode>>
  /\ UNCHANGED <<path, storeVars, tracked, accountsData, loopVars, wdVars, swap,
                 attempts, epoch, marketsAt, markets, liqBorrower, liqBalances, liqCall,
                 liqTx, amountRewarded, artifact>>

NextLiquidator ==
  \/ \E accountAddress \in Addr : LiquidateAccount(accountAddress)
  \/ \E catalog \in Catalogs : InitMarkets(catalog)
  \/ \E reads \in [1..2 -> UserBalances] : GetUserBalances(reads)
  \/ Liquidate
  \/ \E sent \in BOOLEAN, gasPrice \in FirstGasPrices : LiquidateThen(sent, gasPrice)
  \/ \E written \in BOOLEAN : WriteFileThen(written)
  \/ \E terminates \in BOOLEAN : UnhandledRejection(terminates)

SpecLiquidator == InitLiquidator /\ [][NextLiquidator]_vars

(***************************************************************************)
(* The run loop together with the _liquidateAccount calls it starts.       *)
(* Each call is followed through its awaits; the content of the catalog is *)
(* represented by the epoch (number of price moves) at which it was read.  *)
(***************************************************************************)
MaxEpoch == 1

\* The running bot after init() restored two tracked accounts.
InitAttempts ==
  /\ phase = "running"
  /\ path = "restore"
  /\ storeAll = {}
  /\ storeTracked = {"a1", "a2"}
  /\ blacklist = {}
  /\ tracked = <<"a1", "a2">>
  /\ accountsData = <<>>
  /\ pc = "idle"
  /\ previousTracked = <<>>
  /\ accs = <<>>
  /\ sremQueue = <<>>
  /\ obs = [a \in Addr |-> Unread]
  /\ dispatched = [a \in Addr |-> 0]
  /\ removalsIssued = {}
  /\ markets = <<>>
  /\ liqPc = "none"
  /\ liqBorrower = ""
  /\ liqBalances = <<>>
  /\ liqCall = NoCall
  /\ WatchdogIdle
  /\ LiquidatorIdle
  /\ BotIdle
  /\ swap = NoSwap

\* The oracle prices change on the chain.
PriceMove ==
  /\ epoch < MaxEpoch
  /\ epoch' = epoch + 1
  /\ UNCHANGED <<trackerVars, liqVars, wdVars, swap, attempts, marketsAt, exitCode>>

\* this.markets = await this.contractService._getMarkets(): the catalog read
\* at some moment since the call is assigned to the shared field, and
\* writeFile("dump-markets.json") is awaited.
GetMarketsThen(accountAddress, readAt) ==
  /\ phase # "exited"
  /\ attempts[accountAddress].pc = "_getMarkets"
  /\ readAt \in attempts[accountAddress].dispatchedAt..epoch
  /\ marketsAt' = readAt
  /\ attempts' = [attempts EXCEPT ![accountAddress].pc = "writeFile"]
  /\ UNCHANGED <<trackerVars, liqVars, wdVars, swap, epoch, exitCode>>

\* writeFile resolved, await this._initMarkets() returns: _getUserBalances maps
\* over this.markets as it is now, and selection, sizing and gas price follow
\* from these balances.
InitMarketsThen(accountAddress) ==
  /\ phase # "exited"
  /\ attempts[accountAddress].pc = "writeFile"
  /\ attempts' = [attempts EXCEPT ![accountAddress].pc = "liquidate",
                                   ![accountAddress].usedAt = marketsAt]
  /\ UNCHANGED <<trackerVars, liqVars, wdVars, swap, epoch, marketsAt, exitCode>>

\* The rest of _liquidateAccount: its promise is fulfilled after
\* mempoolTracking was called, or rejected by a throw on the way.
AttemptSettles(accountAddress, fulfilled) ==
  /\ phase # "exited"
  /\ attempts[accountAddress].pc = "liquidate"
  /\ attempts' =
       [attempts EXCEPT ![accountAddress].pc = IF fulfilled THEN "ended" ELSE "rejected"]
  /\ UNCHANGED <<trackerVars, liqVars, wdVars, swap, epoch, marketsAt, exitCode>>

\* The rejected promise of an attempt has no handler: the runtime warns and
\* goes on, or ends the process with exit code 1, depending on its version.
AttemptUnhandled(accountAddress, terminates) ==
  /\ phase # "exited"
  /\ attempts[accountAddress].pc = "rejected"
  /\ attempts' = [attempts EXCEPT ![accountAddress].pc = "unhandled"]
  /\ IF terminates
     THEN /\ phase' = "exited"
          /\ exitCode' = 1
     ELSE UNCHANGED <<phase, exitCode>>
  /\ UNCHANGED <<path, storeVars, tracked, accountsData, loopVars, liqVars, wdVars, swap,
                 epoch, marketsAt>>

NextAttempts ==
  \/ LoopStart
  \/ \E i \in 1..LIMIT_ACCOUNTS_TO_TRACK, userData \in LoopUserDatas : LoopCallback(i, userData)
  \/ LoopEnd
  \/ RedisSrem
  \/ PriceMove
  \/ \E accountAddress \in Addr, readAt \in 0..MaxEpoch : GetMarketsThen(accountAddress, readAt)
  \/ \E accountAddress \in Addr : InitMarketsThen(accountAddress)
  \/ \E accountAddress \in Addr, fulfilled \in BOOLEAN : AttemptSettles(accountAddress, fulfilled)
  \/ \E accountAddress \in Addr, terminates \in BOOLEAN :
        AttemptUnhandled(accountAddress, terminates)

SpecAttempts == InitAttempts /\ [][NextAttempts]_vars

\* ---------------------------------------------------------------------------
\* The swap-fee tier: computeSwapFees(debtAssetAToken, collateralAssetAToken).
\* Addresses are cut to "0x" and their first four hex digits, in the letter
\* case of the source.
\* ---------------------------------------------------------------------------

stableCoinsATokens ==
  {<<"0", "x", "2", "7", "f", "8">>,     \* DAI
   <<"0", "x", "1", "a", "1", "3">>,     \* USDC
   <<"0", "x", "c", "2", "1", "3">>}     \* USDT

exoticCoinsATokens ==
  {toLowerCase(<<"0", "x", "0", "C", "a", "2">>),    \* LINK
   toLowerCase(<<"0", "x", "2", "1", "e", "C">>),    \* SUSHI
   toLowerCase(<<"0", "x", "3", "D", "f", "8">>),    \* CRV
   toLowerCase(<<"0", "x", "8", "1", "f", "B">>),    \* DPI
   toLowerCase(<<"0", "x", "c", "4", "1", "9">>),    \* BAL
   toLowerCase(<<"0", "x", "0", "8", "0", "b">>)}    \* GHST

UpperChar(c) ==
  CASE c = "a" -> "A" [] c = "b" -> "B" [] c = "c" -> "C"
    [] c = "d" -> "D" [] c = "e" -> "E" [] c = "f" -> "F"
    [] OTHER -> c

\* The hex digits of an address in capitals.
Capitals(s) == [i \in DOMAIN s |-> IF i <= 2 THEN s[i] ELSE UpperChar(s[i])]

\* aToken addresses a caller may pass: the listed ones and two others, each
\* as written, in lower case and in capitals.
ATokenLiterals ==
  {<<"0", "x", "2", "7", "F", "8">>, <<"0", "x", "1", "a", "1", "3">>,
   <<"0", "x", "c", "2", "1", "3">>, <<"0", "x", "0", "C", "a", "2">>,
   <<"0", "x", "2", "1", "e", "C">>, <<"0", "x", "3", "D", "f", "8">>,
   <<"0", "x", "8", "1", "f", "B">>, <<"0", "x", "c", "4", "1", "9">>,
   <<"0", "x", "0", "8", "0", "b">>, <<"0", "x", "2", "8", "4", "2">>,
   <<"0", "x", "8", "d", "F", "3">>}
ATokens ==
  ATokenLiterals \cup {toLowerCase(a) : a \in ATokenLiterals}
    \cup {Capitals(a) : a \in ATokenLiterals}

\* The lists are compared with the arguments as given.
computeSwapFeesCaseSensitive(debtAssetAToken, collateralAssetAToken) ==
  IF /\ debtAssetAToken \in stableCoinsATokens
     /\ collateralAssetAToken \in stableCoinsATokens
  THEN "500"
  ELSE IF \/ debtAssetAToken \in exoticCoinsATokens
          \/ collateralAssetAToken \in exoticCoinsATokens
       THEN "10000"
       ELSE "3000"

computeSwapFees(debtAssetAToken, collateralAssetAToken) ==
  IF /\ toLowerCase(debtAssetAToken) \in stableCoinsATokens
     /\ toLowerCase(collateralAssetAToken) \in stableCoinsATokens
  THEN "500"
  ELSE IF \/ toLowerCase(debtAssetAToken) \in exoticCoinsATokens
          \/ toLowerCase(collateralAssetAToken) \in exoticCoinsATokens
       THEN "10000"
       ELSE "3000"

\* ContractService.liquidate is about to compute the tier for its two aTokens.
InitSwapFees ==
  /\ phase = "running"
  /\ path = "restore"
  /\ storeAll = {}
  /\ storeTracked = {}
  /\ blacklist = {}
  /\ tracked = <<>>
  /\ accountsData = <<>>
  /\ pc = "idle"
  /\ previousTracked = <<>>
  /\ accs = <<>>
  /\ sremQueue = <<>>
  /\ obs = [a \in Addr |-> Unread]
  /\ dispatched = [a \in Addr |-> 0]
  /\ removalsIssued = {}
  /\ markets = <<>>
  /\ liqPc = "liquidate"
  /\ liqBorrower = "a1"
  /\ liqBalances = <<>>
  /\ liqCall = NoCall
  /\ WatchdogIdle
  /\ LiquidatorIdle
  /\ BotIdle
  /\ swap \in {[called |-> FALSE, debtAssetAToken |-> d, collateralAssetAToken |-> c,
                fees |-> ""] : d \in ATokens, c \in ATokens}

\* const fees = computeSwapFees(debtAssetAToken, collateralAssetAToken)
ComputeSwapFees ==
  /\ ~swap.called
  /\ swap' = [swap EXCEPT !.called = TRUE,
                          !.fees = computeSwapFees(swap.debtAssetAToken,
                                                   swap.collateralAssetAToken)]
  /\ UNCHANGED <<trackerVars, liqVars, wdVars, botVars>>

NextSwapFees == ComputeSwapFees

SpecSwapFees == InitSwapFees /\ [][NextSwapFees]_vars

(***************************************************************************)
(* Properties of the Tracker                                               *)
(***************************************************************************)
InBand(hf) == WAD < hf /\ hf <= UPPER_BOUND

\* The iteration that read address a is over: a later iteration is running,
\* or the loop is between iterations.
IterationOver(a) == pc = "idle" \/ (pc = "fanout" /\ a \notin Range(Addresses(accs)))

\* C1: an address read with health factor <= 1e18 is dispatched to the
\* Liquidator exactly once in the run and is absent from the tracked array of
\* every later iteration; no address is dispatched twice.
C1_DispatchedExactlyOnce ==
  \A a \in Addr :
    /\ dispatched[a] <= 1
    /\ (obs[a].seen /\ obs[a].ok /\ obs[a].hf <= WAD) =>
         /\ dispatched[a] = 1
         /\ IterationOver(a) => a \notin Range(tracked)

C1_Witness ==
  \E a \in Addr :
    /\ obs[a].seen /\ obs[a].ok /\ obs[a].hf <= WAD
    /\ dispatched[a] = 1
    /\ pc = "fanout" /\ accs # <<>> /\ a \notin Range(Addresses(accs))
    /\ \E i \in DOMAIN accs : accs[i].done

\* C2: while the loop runs, every step leaves the tracked array a subset of
\* what it was: an iteration never adds an address, and a removed address
\* never comes back.
C2_TrackedOnlyShrinks ==
  [][(phase = "running" /\ phase' = "running") => Range(tracked') \subseteq Range(tracked)]_vars

C2_Witness ==
  /\ phase = "running" /\ pc = "idle"
  /\ Len(tracked) < Len(previousTracked)
  /\ Len(tracked) > 0

\* C3: after bootstrap no blacklisted address is tracked, in memory or in
\* the store.
C3_BlacklistNeverTracked ==
  phase \in {"ready", "running"} =>
    blacklist \cap (Range(tracked) \cup storeTracked) = {}

C5_HealedIsRemoved ==
  \A a \in Addr :
    (obs[a].seen /\ obs[a].ok /\ obs[a].hf > UPPER_BOUND) =>
      /\ a \in removalsIssued
      /\ a \in Range(sremQueue) \/ a \notin storeTracked
      /\ dispatched[a] = 0
      /\ IterationOver(a) => a \notin Range(tracked)

C5_Witness ==
  \E a \in Addr :
    /\ obs[a].seen /\ obs[a].ok /\ obs[a].hf > UPPER_BOUND
    /\ pc = "idle"
    /\ a \in Range(previousTracked) /\ a \notin Range(tracked)
    /\ Len(tracked) = Len(previousTracked) - 1
    /\ a \notin storeTracked

\* C6: a failed oracle read does not break the iteration; the address is
\* removed, its removal is sent to the store, it is not dispatched, and every
\* other address of the iteration is classified by its own summary.
C6_FailedReadIsRemoved ==
  /\ pc # "crashed"
  /\ \A a \in Addr :
       (obs[a].seen /\ ~obs[a].ok) =>
         /\ a \in removalsIssued
         /\ a \in Range(sremQueue) \/ a \notin storeTracked
         /\ dispatched[a] = 0
         /\ IterationOver(a) => a \notin Range(tracked)
  /\ \A i \in DOMAIN accs :
       accs[i].done =>
         (accs[i].toRemove <=> (~accs[i].ok \/ ~InBand(accs[i].hf)))

C6_Witness ==
  \E a, b \in Addr :
    /\ a # b
    /\ obs[a].seen /\ ~obs[a].ok
    /\ obs[b].seen /\ obs[b].ok /\ InBand(obs[b].hf)
    /\ pc = "idle"
    /\ Range(previousTracked) = {a, b}
    /\ tracked = <<b>>

\* C7: the stored tracked set never has more than K members.
C7_StoreTrackedAtMostK == Cardinality(storeTracked) <= LIMIT_ACCOUNTS_TO_TRACK

\* The summary bootstrap read for address a.
BootData(a) == CHOOSE d \in Range(accountsData) : d.address = a

\* C8: every address the seeding adds (to the store or to the in-memory
\* array) was read with total debt > 1e14 and health factor > 1e18; an
\* address whose read failed is not added.
C8_AddedAreEligible ==
  [][(phase = "seeding" /\ phase' = "ready") =>
       \A a \in (storeTracked' \ storeTracked) \cup Range(tracked') :
         /\ a \in Range(Addresses(accountsData))
         /\ BootData(a).ok
         /\ BootData(a).debt > MIN_DEBT
         /\ BootData(a).hf > WAD]_vars

C8_Witness ==
  /\ phase = "ready" /\ path = "seed"
  /\ Len(tracked) > 0
  /\ \E i \in DOMAIN accountsData : ~accountsData[i].ok
  /\ \E i \in DOMAIN accountsData :
       accountsData[i].ok /\ accountsData[i].hf = WAD /\ accountsData[i].debt > MIN_DEBT

\* The selection bootstrap makes from the candidate summaries in order p.
Selection(p) == addAccountsToTrack(Addresses(Sorted(p)), LIMIT_ACCOUNTS_TO_TRACK)

EligibleData == {d \in Range(accountsData) : d.ok /\ d.debt > MIN_DEBT /\ d.hf > WAD}

\* C9: the selection depends only on the set of candidate summaries, not on
\* their order: it is the K eligible candidates of smallest health factor (all
\* of them when fewer are eligible), in ascending order of health factor.
C9_SelectionDeterministic ==
  (phase = "ready" /\ path = "seed") =>
    /\ \A p \in Perms(Range(accountsData)) : Range(Selection(p)) = Range(tracked)
    /\ \A i, j \in DOMAIN tracked :
         i < j => BootData(tracked[i]).hf <= BootData(tracked[j]).hf
    /\ \A a \in Range(tracked) : BootData(a) \in EligibleData
    /\ \A d \in EligibleData :
         d.address \notin Range(tracked) =>
           \A a \in Range(tracked) : BootData(a).hf <= d.hf
    /\ (Cardinality(EligibleData) >= LIMIT_ACCOUNTS_TO_TRACK) =>
         Len(tracked) = LIMIT_ACCOUNTS_TO_TRACK

(***************************************************************************)
(* Properties of the Liquidator                                            *)
(***************************************************************************)
\* The balance of the market whose aToken was passed as the debt asset.
DebtLeg == CHOOSE b \in Range(liqBalances) : b.market.aTokenAddress = liqCall.debtAssetAToken

\* C10: the repay amount passed to the wrapper is floor(variable debt / 2) of
\* the debt market passed with it, as read for this attempt; it never exceeds
\* half of that debt.
C10_RepayIsHalfDebt ==
  liqCall.made =>
    /\ \E b \in Range(liqBalances) : b.market.aTokenAddress = liqCall.debtAssetAToken
    /\ 2 * liqCall.debtAmount <= DebtLeg.currentVariableDebt
    /\ DebtLeg.currentVariableDebt < 2 * liqCall.debtAmount + 2

\* An attempt whose chosen debt is odd (the division rounds) and differs from
\* the other market's debt.
C10_Witness ==
  /\ liqCall.made
  /\ DebtLeg.currentVariableDebt = 3
  /\ liqCall.debtAmount = 1
  /\ \E b \in Range(liqBalances) :
       b.market.aTokenAddress # liqCall.debtAssetAToken /\ b.currentVariableDebt = 2

\* C26: a removal decided in one iteration has reached the stored tracked set
\* by the end of the next iteration: when an iteration ends, every srem still
\* waiting was issued in that iteration, for an address it fanned out over.
C26_StoreLagsOneIteration ==
  [][(pc = "fanout" /\ pc' = "idle") => Range(sremQueue) \subseteq Range(previousTracked)]_vars

\* C27: iterations do not overlap and the tracked array is left alone during
\* the fan-out: while reads are outstanding the array is the one read at the
\* start and the callbacks are those of its addresses; the array is replaced
\* only by the step that ends the iteration, after every read has returned;
\* an iteration starts only when none is running.
C27_IterationsSequential ==
  /\ [](pc = "fanout" => (tracked = previousTracked /\ Addresses(accs) = previousTracked))
  /\ [][(phase = "running" /\ tracked' # tracked) =>
          (pc = "fanout" /\ pc' = "idle" /\ \A i \in DOMAIN accs : accs[i].done)]_vars
  /\ [][(pc # "fanout" /\ pc' = "fanout") => (pc = "idle" /\ accs = <<>>)]_vars

\* A fan-out over two addresses with one read back and one outstanding, the
\* returned one to be removed.
C27_Witness ==
  /\ pc = "fanout"
  /\ Len(accs) = 2
  /\ accs[1].done /\ accs[1].toRemove
  /\ ~accs[2].done
  /\ Len(tracked) = 2

\* C30: on the seeding path the bootstrap ends fatally exactly when no
\* candidate is eligible; then nothing is added to the stored tracked set, the
\* tracked array stays empty and the run loop never starts.
C30_EmptySeedIsFatal ==
  /\ [][(phase = "seeding" /\ phase' # "seeding") =>
          /\ (phase' = "fatal") <=> (EligibleData = {})
          /\ (phase' = "fatal") => (storeTracked' = storeTracked /\ tracked' = <<>>)]_vars
  /\ [][phase = "fatal" =>
          (phase' = "fatal" /\ storeTracked' = storeTracked /\ tracked' = <<>> /\ pc' = "idle")]_vars
  /\ [](phase = "fatal" => (path = "seed" /\ pc = "idle" /\ sremQueue = <<>>))

\* Candidates were read, one of them with a health factor, and none passed.
C30_Witness ==
  /\ phase = "fatal"
  /\ \E d \in Range(accountsData) : d.ok /\ d.hf = WAD
  /\ \E d \in Range(accountsData) : ~d.ok

\* The balance of the market whose aToken was passed as the collateral asset.
CollateralLeg ==
  CHOOSE b \in Range(liqBalances) : b.market.aTokenAddress = liqCall.collateralAssetAToken

\* The scores as the specification writes them, divided once, at the end.
ScoreDebt(b) == (b.currentVariableDebt * b.market.ethPrice) \div Pow10(b.market.decimals)
ScoreColl(b) ==
  (b.currentATokenBalance * b.market.ethPrice * b.market.liquidationBonus)
    \div Pow10(b.market.decimals)

\* C11: the debt market passed to the wrapper has the largest score
\* variable_debt*price/10^decimals and the collateral market the largest score
\* a_token_balance*price*liquidation_bonus/10^decimals: no market scores
\* strictly higher than the selected one.
C11_SelectedHasLargestScore ==
  liqCall.made =>
    \A b \in Range(liqBalances) :
      /\ ScoreDebt(b) <= ScoreDebt(DebtLeg)
      /\ ScoreColl(b) <= ScoreColl(CollateralLeg)

\* Address order of the reserves ("m1" before "m2").
AddrRank(address) == IF address = "m1" THEN 1 ELSE 2

\* C12: the debt and collateral choices are the same for every order of the
\* market list; among markets of equal truncated score the one with the
\* smallest address is chosen.
C12_SelectionPermutationInvariant ==
  liqCall.made =>
    /\ \A p \in Perms(Range(liqBalances)) :
         /\ _selectDebtToken(p).market.aTokenAddress = liqCall.debtAssetAToken
         /\ _selectCollateralToken(p).market.aTokenAddress = liqCall.collateralAssetAToken
    /\ \A b \in Range(liqBalances) :
         /\ ScoreDebt(b) = ScoreDebt(DebtLeg) =>
              AddrRank(DebtLeg.market.address) <= AddrRank(b.market.address)
         /\ (ScoreColl(b) = ScoreColl(CollateralLeg)
               /\ b.market.liquidationBonus = CollateralLeg.market.liquidationBonus) =>
              AddrRank(CollateralLeg.market.address) <= AddrRank(b.market.address)

\* The reward as the specification writes it, with powers of ten.
RewardAsSpecified(debtAmount, repayBalance, collateralBalance) ==
  (((((debtAmount * repayBalance.market.ethPrice) * Pow10(collateralBalance.market.decimals))
       \div Pow10(repayBalance.market.decimals))
      \div collateralBalance.market.ethPrice)
     * collateralBalance.market.liquidationBonus) \div 10000

\* C21: the estimated reward of an attempt is
\* repay_amount * price(debt) * 10^decimals(coll) / 10^decimals(debt)
\*   / price(coll) * liquidation_bonus / 10000.
C21_RewardEstimate ==
  amountRewarded # -1 =>
    amountRewarded = RewardAsSpecified(liqCall.debtAmount, DebtLeg, CollateralLeg)

\* C25: when the submission failed (no transaction was returned), the attempt
\* absorbs the failure: the artifact file is written, the watchdog is not
\* started, and the attempt does not end in an uncaught error.
C25_SubmissionFailureAbsorbed ==
  (liqCall.made /\ liqPc # "submitted" /\ liqTx = NoTx) =>
    /\ artifact.written
    /\ wdPc = "none"
    /\ liqPc \notin {"rejected", "unhandled"}
    /\ phase # "exited"

\* ---------------------------------------------------------------------------
\* Properties of the loop with its attempts (SpecAttempts).
\* ---------------------------------------------------------------------------

\* An attempt is in flight from its dispatch until its promise settles.
InFlight(a) == attempts[a].pc \in {"_getMarkets", "writeFile", "liquidate"}

\* An attempt is complete once its promise is fulfilled, or rejected and the
\* runtime has reacted to the rejection.
Completed(a) == attempts[a].pc \in {"ended", "unhandled"}

\* C22: once an attempt is complete the process has terminated, with exit
\* code 1 when the attempt succeeded and 0 when it failed.
C22_ExitsAfterFirstAttempt ==
  \A a \in Addr :
    Completed(a) =>
      /\ phase = "exited"
      /\ exitCode = IF attempts[a].pc = "ended" THEN 1 ELSE 0

\* C23: at most one liquidation attempt is in flight at any time.
C23_OneAttemptInFlight == Cardinality({a \in Addr : InFlight(a)}) <= 1

\* A step of the run loop: an iteration starts, one of its callbacks resumes,
\* or it ends.
LoopStep ==
  \/ LoopStart
  \/ \E i \in 1..LIMIT_ACCOUNTS_TO_TRACK, userData \in LoopUserDatas : LoopCallback(i, userData)
  \/ LoopEnd

\* C24: once an attempt was dispatched, whatever its position or outcome, the
\* loop is still running and its next step can be taken without waiting for
\* the attempt.
C24_TrackerKeepsIterating ==
  (\E a \in Addr : attempts[a].pc # "none") =>
    /\ phase = "running"
    /\ ENABLED LoopStep

\* C28: the catalog an attempt computes its balances, selection, repay amount
\* and gas price from was read after the attempt was dispatched, also when
\* several attempts run concurrently.
C28_CatalogLoadedAfterDispatch ==
  \A a \in Addr :
    attempts[a].pc \in {"liquidate", "ended", "rejected", "unhandled"} =>
      attempts[a].usedAt >= attempts[a].dispatchedAt

\* ---------------------------------------------------------------------------
\* Properties of the watchdog (SpecWatchdog).
\* ---------------------------------------------------------------------------

Failed(i) == ourTxs[i].status \in {"reverted", "replaced"}

\* C13: when the callback that observed a competitor at gas price g_c
\* re-broadcasts, the transaction sent is the first submission with gas price
\* floor(g_c*11/10) and nothing else changed, its hash is added to
\* editedTxHash, and myGasCost becomes floor(g_c*11/10).
C13_BumpFollowsCompetitor ==
  [][\A cb \in BagToSet(callbacks) :
       (/\ cb.at = "sendTransaction"
        /\ callbacks' = callbacks (-) SetToBag({cb})
        /\ Len(ourTxs') = Len(ourTxs) + 1) =>
         LET g == IncreasedGasCost(cb.transaction.gasPrice)
             sent == ourTxs'[Len(ourTxs')].tx
         IN /\ sent = [ourTxs[1].tx EXCEPT !.gasPrice = g]
            /\ Hash(sent) \in Range(editedTxHash')
            /\ myGasCost' = g]_vars

\* C14: a callback goes on to bump only for a transaction whose sender is not
\* our submitter and whose calldata contains the borrower address without
\* "0x"; a transaction of our own never triggers a bump.
C14_OwnTxNeverBumps ==
  \A cb \in BagToSet(callbacks) :
    cb.at # "getTransaction" =>
      /\ cb.transaction.from # Submitter
      /\ includes(cb.transaction.data, slice(borrowerAddress, 2))

\* C15: every transaction broadcast for the attempt has the sender and the
\* nonce of the first submission, and at most one of them is confirmed.
C15_OneNonceOneConfirmation ==
  /\ \A i \in DOMAIN ourTxs :
       /\ ourTxs[i].tx.nonce = ourTxs[1].tx.nonce
       /\ ourTxs[i].tx.from = ourTxs[1].tx.from
  /\ Cardinality({i \in DOMAIN ourTxs : ourTxs[i].status = "confirmed"}) <= 1

\* Three transactions broadcast, a re-broadcast confirmed, the others replaced.
C15_Witness ==
  /\ Len(ourTxs) = 3
  /\ ourTxs[3].status = "confirmed"
  /\ ourTxs[1].status = "replaced"
  /\ ourTxs[2].status = "replaced"

\* C16: once the wait() of a transaction whose hash is in editedTxHash has
\* resolved, the "pending" listener is gone and the success message is logged.
C16_ConfirmationStops ==
  \A i \in DOMAIN ourTxs :
    (/\ ourTxs[i].status = "confirmed"
     /\ ourTxs[i].settled
     /\ Hash(ourTxs[i].tx) \in Range(editedTxHash)) =>
      (~listening /\ "success" \in outcomes)

\* A re-broadcast confirmed while a callback was still in flight.
C16_Witness ==
  /\ Len(ourTxs) >= 2
  /\ ourTxs[2].status = "confirmed"
  /\ ourTxs[2].settled
  /\ Hash(ourTxs[2].tx) \in Range(editedTxHash)
  /\ callbacks # EmptyBag
  /\ ~listening

\* C17: when the wait() of a transaction rejects, its hash is in editedTxHash
\* and is removed, every other hash stays; the listener and the log are left
\* alone while a hash remains, and the watchdog stops with the error message
\* exactly when none remains.
C17_FailureDropsHash ==
  [][\A i \in DOMAIN ourTxs :
       (Failed(i) /\ ~ourTxs[i].settled /\ ourTxs'[i].settled) =>
         LET hash == Hash(ourTxs[i].tx)
         IN /\ hash \in Range(editedTxHash)
            /\ Range(editedTxHash') = Range(editedTxHash) \ {hash}
            /\ IF editedTxHash' = <<>>
               THEN ~listening' /\ "error" \in outcomes'
               ELSE listening' = listening /\ outcomes' = outcomes]_vars

\* One transaction failed and the watchdog went on; then the last one failed
\* and it stopped with the error message.
C17_Witness ==
  /\ Len(ourTxs) = 2
  /\ \A i \in DOMAIN ourTxs : Failed(i) /\ ourTxs[i].settled
  /\ editedTxHash = <<>>
  /\ ~listening
  /\ outcomes = {"error"}
  /\ events = 1

\* Nothing of the watchdog is left to run: no callback in flight and no
\* settled wait() whose handler has not run.
Quiescent ==
  /\ callbacks = EmptyBag
  /\ \A i \in DOMAIN ourTxs : ourTxs[i].status = "pending" \/ ourTxs[i].settled

\* C18: the watchdog has stopped once 30 s have passed since dispatch and
\* nothing of it is left to run, whether or not another pending transaction
\* is announced and whether or not our transactions settle.
C18_StopsByDeadline ==
  (wdPc = "tracking" /\ elapsed /\ Quiescent) => ~listening

\* C29: when the transaction a callback fetched has a gas price not above
\* myGasCost, or its calldata does not contain the borrower address, the
\* callback ends there: nothing is signed or broadcast, and myGasCost and
\* editedTxHash stay as they are.
C29_NoBumpFrame ==
  [][\A cb \in BagToSet(callbacks) :
       (/\ cb.at = "getTransaction"
        /\ CopiesIn(cb, callbacks') < CopiesIn(cb, callbacks)
        /\ \/ cb.transaction.gasPrice <= myGasCost
           \/ ~includes(cb.transaction.data, slice(borrowerAddress, 2))) =>
         /\ callbacks' = callbacks (-) SetToBag({cb})
         /\ UNCHANGED <<ourTxs, myGasCost, editedTxHash, increasedGasCost>>]_vars

\* After a bump to 55 gwei two more announcements were handled (one can be
\* the competitor at 33 gwei, one the unrelated call at 50 gwei) and nothing
\* else was broadcast.
C29_Witness ==
  /\ events = 3
  /\ callbacks = EmptyBag
  /\ Len(ourTxs) = 2
  /\ myGasCost = 55
  /\ Len(editedTxHash) = 2
  /\ listening

\* ---------------------------------------------------------------------------
\* Properties of the swap-fee tier (SpecSwapFees).
\* ---------------------------------------------------------------------------

\* The same address but for the case of its letters.
SameToken(a, b) == toLowerCase(a) = toLowerCase(b)
Listed(list, a) == \E l \in list : SameToken(l, a)

\* C20: the tier is 500 when both aTokens are stablecoins of the list, 10000
\* when they are not and at least one is in the exotic list, 3000 otherwise,
\* whatever the case of the letters and whichever is the debt side.
C20_SwapFeeTier ==
  swap.called =>
    LET d == swap.debtAssetAToken
        c == swap.collateralAssetAToken
    IN /\ swap.fees =
            IF Listed(stableCoinsATokens, d) /\ Listed(stableCoinsATokens, c) THEN "500"
            ELSE IF Listed(exoticCoinsATokens, d) \/ Listed(exoticCoinsATokens, c)
                 THEN "10000"
                 ELSE "3000"
       /\ swap.fees = computeSwapFees(c, d)
       /\ \A d2, c2 \in ATokens :
            (SameToken(d2, d) /\ SameToken(c2, c)) => computeSwapFees(d2, c2) = swap.fees

\* A stablecoin written with capitals against an exotic token in capitals.
C20_Witness ==
  /\ swap.called
  /\ swap.debtAssetAToken = <<"0", "x", "2", "7", "F", "8">>
  /\ swap.collateralAssetAToken = <<"0", "x", "0", "C", "A", "2">>
  /\ swap.fees = "10000"
\* ---------------------------------------------------------------------------
\* Further properties of the watchdog (SpecWatchdog).
\* ---------------------------------------------------------------------------

\* C31: within one watchdog run myGasCost never decreases, and every
\* transaction broadcast has a gas price strictly higher than every
\* transaction broadcast before it.
C31_GasPriceOnlyRises ==
  /\ [][wdPc = "tracking" => myGasCost' >= myGasCost]_vars
  /\ [](\A i, j \in DOMAIN ourTxs : i < j => ourTxs[i].tx.gasPrice < ourTxs[j].tx.gasPrice)

\* The listener was removed: on confirmation, on exhaustion of editedTxHash,
\* or on timeout.
Stopped == wdPc = "tracking" /\ ~listening

\* C32: after the watchdog has stopped, no callback goes on to sign a
\* replacement and no transaction is broadcast.
C32_NothingSentAfterStop ==
  [][Stopped =>
       /\ Len(ourTxs') = Len(ourTxs)
       /\ \A cb \in BagToSet(callbacks') :
            cb.at \in {"signTransaction", "sendTransaction"} =>
              CopiesIn(cb, callbacks') <= CopiesIn(cb, callbacks)]_vars

\* A replacement is being signed or broadcast by some callback.
BumpInFlight ==
  \E cb \in BagToSet(callbacks) : cb.at \in {"signTransaction", "sendTransaction"}

\* C33: the watchdog stops with the failure outcome only when every
\* transaction broadcast has failed and no replacement is being signed or
\* broadcast; the hash of every broadcast transaction that has not failed is
\* in editedTxHash.
C33_ErrorOnlyWhenAllFailed ==
  /\ [][("error" \notin outcomes /\ "error" \in outcomes') =>
         /\ \A i \in DOMAIN ourTxs' : ourTxs'[i].status \in {"reverted", "replaced"}
         /\ ~BumpInFlight]_vars
  /\ [](\A i \in DOMAIN ourTxs :
          ~Failed(i) => Hash(ourTxs[i].tx) \in Range(editedTxHash))

\* ---------------------------------------------------------------------------
\* Further properties of the tracker (Spec).
\* ---------------------------------------------------------------------------

\* C34: when bootstrap completes, the in-memory tracked set equals the
\* store's Tracked set; in particular every address the store tracked before
\* a seeding bootstrap is in the in-memory tracked set.
C34_BootstrapTrackedEqualsStore ==
  phase = "ready" => Range(tracked) = storeTracked

\* The addresses the running iteration has decided to remove.
RemovalDecided == {accs[i].address : i \in {j \in DOMAIN accs : accs[j].toRemove}}

\* C35 as stated: in every state after bootstrap every address of the
\* in-memory tracked set is in the store's Tracked set.
C35_TrackedInStoreAlways ==
  phase \in {"ready", "running"} => Range(tracked) \subseteq storeTracked

\* C35: in every state after bootstrap every address of the in-memory tracked
\* set is in the store's Tracked set, except the addresses the running
\* iteration has already decided to remove; between iterations there is no
\* exception.
C35_TrackedInStore ==
  phase \in {"ready", "running"} =>
    /\ (Range(tracked) \ RemovalDecided) \subseteq storeTracked
    /\ pc = "idle" => Range(tracked) \subseteq storeTracked

\* Mid-iteration: one removal decided and executed by redis while the other
\* tracked address is still being read.
C35_Witness ==
  /\ phase = "running"
  /\ pc = "fanout"
  /\ Len(tracked) = 2
  /\ \E i, j \in DOMAIN accs :
       /\ accs[i].toRemove
       /\ accs[i].address \notin storeTracked
       /\ ~accs[j].done
       /\ accs[j].address \in storeTracked

====
